---- MODULE Spec2Model ----
(***************************************************************************)
(* prepare_dataset of src/diffusionLM/utils/datasetANDtokenizer.py as a    *)
(* state machine: one call of the function, one action per statement group *)
(* of its body, the external collaborators (AutoTokenizer, load_dataset,   *)
(* DatasetDict.map, PYTORCH_Dataset) as nondeterministic results.          *)
(*                                                                         *)
(* A message is a sequence of text fragments; concatenating f-string parts *)
(* is \o, and "the message contains x" is "x is one of its fragments".     *)
(***************************************************************************)
EXTENDS Integers, Sequences, FiniteSets

VARIABLES
    dataset_name,      \* argument dataset_name
    arg_text_column,   \* argument text_column as the caller passed it
    text_column,       \* the local text_column (reassigned by detection)
    pc,                \* position in the body of prepare_dataset
    tokenizer,         \* the tokenizer handle (mutated in place)
    loaded_tokenizer,  \* the handle as from_pretrained returned it
    dataset,           \* the DatasetDict load_dataset returned
    remove_columns,    \* the local remove_columns
    mapped,            \* batches dataset.map has passed to tokenize_function
    tokenized_dataset, \* the result of dataset.map
    train_dataset,     \* the local train_dataset
    val_dataset,       \* the local val_dataset
    trace,             \* the steps of the sequence entered so far
    cause,             \* the exception an external call threw, if any
    raised,            \* the exception that left the try body, if any
    outcome            \* what the caller of prepare_dataset observes

vars == <<dataset_name, arg_text_column, text_column, pc, tokenizer,
          loaded_tokenizer, dataset, remove_columns, mapped,
          tokenized_dataset, train_dataset, val_dataset, trace, cause,
          raised, outcome>>

---------------------------------------------------------------------------
(* Bounds of the model *)

MaxCols == 2       \* columns of a dataset
MaxBatches == 2    \* batches (records) of each split

(* Python's None for a column name, and for a token id *)
None == "None"
NoId == -1

DPE == "DatasetPreparationError"

(* The inputs the model draws from *)
DatasetNames == {"wikitext", "imdb"}
ColumnNames == {"text", "content", "foo", "bar"}
ExplicitColumns == {"text", "foo", "label"}
ValueTypes == {"str", "int"}
SplitLayouts == {<<"train">>, <<"train", "validation">>, <<"validation">>}

(* What an external collaborator may throw: ordinary exceptions *)
ExternalErrors ==
    { [kind |-> "OSError", msg |-> <<"connection reset">>],
      [kind |-> "ValueError", msg |-> <<"bad value">>] }

(* The handles AutoTokenizer.from_pretrained may return: mask and pad
   tokens each defined or not. *)
ProviderTokenizers ==
    { [mask_token_id |-> m, pad_token_id |-> p, vocab_size |-> 3] :
          m \in {NoId, 1}, p \in {NoId, 2} }

RECURSIVE SeqsUpTo(_, _)
SeqsUpTo(S, n) ==
    IF n = 0 THEN {<<>>}
    ELSE LET shorter == SeqsUpTo(S, n - 1)
         IN  shorter \cup
             { Append(s, x) : s \in { t \in shorter : Len(t) = n - 1 },
                              x \in S }

Range(s) == { s[i] : i \in 1..Len(s) }

NoDup(s) == \A i, j \in 1..Len(s) : i # j => s[i] # s[j]

ColumnLists == { s \in SeqsUpTo(ColumnNames, MaxCols) : NoDup(s) }

(* The DatasetDicts load_dataset may return: the split names in insertion
   order, the column names in declared order, the type of each column's
   value in the first record, and the number of batches of each split. *)
ProviderDatasets ==
    UNION { { [splits |-> sp, column_names |-> cols, first |-> f,
               num_batches |-> n] :
                 f \in [Range(cols) -> ValueTypes] } :
            sp \in SplitLayouts, cols \in ColumnLists, n \in 0..MaxBatches }

NoDataset ==
    [splits |-> <<>>, column_names |-> <<>>, first |-> <<>>, num_batches |-> 0]

NoTokenizer == [mask_token_id |-> NoId, pad_token_id |-> NoId, vocab_size |-> 0]

NoExc == [kind |-> "None", msg |-> <<>>, at |-> "None"]

NoWrapper == [split |-> "None", mask_token_id |-> NoId, pad_token_id |-> NoId]

NoOutcome ==
    [kind |-> "pending", msg |-> <<>>, train |-> NoWrapper,
     val |-> NoWrapper, tokenizer |-> NoTokenizer]

---------------------------------------------------------------------------
(* Exceptions and messages *)

InSeq(s, x) == \E i \in 1..Len(s) : s[i] = x

Contains(msg, x) == InSeq(msg, x)

\* str(e)
Str(e) == e.msg

\* DatasetPreparationError(message)
DatasetPreparationError(message) == [kind |-> DPE, msg |-> message]

\* KeyError(key): str(KeyError('train')) is "'train'"
KeyError(key) == [kind |-> "KeyError", msg |-> <<"'", key, "'">>]

\* dataset['train'][0] on a split without records
IndexError == [kind |-> "IndexError", msg |-> <<"index out of range">>]

At(e, step) == [kind |-> e.kind, msg |-> e.msg, at |-> step]

LoadFailed == "Failed to load dataset "
DetectFailed == "Could not detect text column. Available columns: "
TokenizationFailed == "Tokenization failed: "
PreparationFailed == "Dataset preparation failed: "

\* the load message without the dataset identifier
LoadError_noName(name, e) ==
    DatasetPreparationError(<<LoadFailed>> \o Str(e))

\* line 62
LoadError(name, e) ==
    DatasetPreparationError(<<LoadFailed, name, ": ">> \o Str(e))

\* lines 84-86
DetectError(available_columns) ==
    DatasetPreparationError(<<DetectFailed>> \o available_columns)

\* lines 100-101
TokenizeError(e) ==
    DatasetPreparationError(<<TokenizationFailed>> \o Str(e))

\* the outer handler re-raising what it caught (`raise`) instead of wrapping
OuterBoundary_reraise(e) == [kind |-> e.kind, msg |-> e.msg]

\* lines 132-134: `except Exception` catches every ordinary exception,
\* a DatasetPreparationError included.
OuterBoundary(e) ==
    DatasetPreparationError(<<PreparationFailed>> \o Str(e))

---------------------------------------------------------------------------
(* Tokenizer provisioning *)

\* tokenizer.add_special_tokens({'mask_token': '[MASK]'}): the new token
\* gets the next free id and the vocabulary grows by one.
AddMaskToken(tok) ==
    [tok EXCEPT !.mask_token_id = tok.vocab_size,
                !.vocab_size = tok.vocab_size + 1]

\* tokenizer.add_special_tokens({'pad_token': '[PAD]'})
AddPadToken(tok) ==
    [tok EXCEPT !.pad_token_id = tok.vocab_size,
                !.vocab_size = tok.vocab_size + 1]

\* line 49
MaskMissing(tok) == tok.mask_token_id = NoId

\* the pad check testing the mask token (a copy of line 49)
PadMissing_checksMask(tok) == tok.mask_token_id = NoId

\* line 53
PadMissing(tok) == tok.pad_token_id = NoId

---------------------------------------------------------------------------
(* Text column detection *)

possible_columns == <<"text", "content", "input_text", "sentence", "document">>

\* lines 71-74: next((col for col in possible_columns
\*                    if col in available_columns), None)
RECURSIVE NextCandidate(_, _)
NextCandidate(i, available_columns) ==
    IF i > Len(possible_columns) THEN None
    ELSE IF InSeq(available_columns, possible_columns[i])
         THEN possible_columns[i]
         ELSE NextCandidate(i + 1, available_columns)

\* the loops swapped: the first available column that is a candidate
RECURSIVE NextAvailableCandidate(_, _)
NextAvailableCandidate(i, available_columns) ==
    IF i > Len(available_columns) THEN None
    ELSE IF InSeq(possible_columns, available_columns[i])
         THEN available_columns[i]
         ELSE NextAvailableCandidate(i + 1, available_columns)

CandidateMatch_datasetOrder(available_columns) ==
    NextAvailableCandidate(1, available_columns)

CandidateMatch(available_columns) == NextCandidate(1, available_columns)

\* lines 78-81: the first column whose first-record value is a str
RECURSIVE NextStringColumn(_, _, _)
NextStringColumn(i, available_columns, first) ==
    IF i > Len(available_columns) THEN None
    ELSE IF first[available_columns[i]] = "str"
         THEN available_columns[i]
         ELSE NextStringColumn(i + 1, available_columns, first)

\* the scan without the isinstance test: the first column whatever it holds
StringScan_anyType(available_columns, first) ==
    IF available_columns = <<>> THEN None ELSE available_columns[1]

StringScan(available_columns, first) ==
    NextStringColumn(1, available_columns, first)

\* lines 67-81
AutoDetect(available_columns, first) ==
    LET c == CandidateMatch(available_columns)
    IN  IF c # None THEN c ELSE StringScan(available_columns, first)

\* an explicit column validated against the available columns
ResolveTextColumn_validated(column, available_columns, first) ==
    IF column = None THEN AutoDetect(available_columns, first)
    ELSE IF InSeq(available_columns, column) THEN column ELSE None

\* lines 65-81
ResolveTextColumn(column, available_columns, first) ==
    IF column = None THEN AutoDetect(available_columns, first) ELSE column

---------------------------------------------------------------------------
(* Tokenization and wrapping *)

HasTrain(d) == InSeq(d.splits, "train")

\* line 105: [text_column] if text_column in dataset['train'].column_names
\* else None (None is the empty list here)
RemoveColumns(column, d) ==
    IF InSeq(d.column_names, column) THEN <<column>> ELSE <<>>

\* dataset.map calls tokenize_function once per batch of every split
TotalBatches(d) == Len(d.splits) * d.num_batches

\* the split the next batch belongs to
CurrentSplit(d, done) == d.splits[(done \div d.num_batches) + 1]

\* lines 107-112: the splits of the result are those of the input; the
\* removed column is gone and the tokenizer's outputs are added
Tokenized(d, removed) ==
    [splits |-> d.splits,
     column_names |->
         SelectSeq(d.column_names, LAMBDA c : ~InSeq(removed, c))
             \o <<"input_ids", "attention_mask">>]

NoTokenized == [splits |-> <<>>, column_names |-> <<>>]

\* PYTORCH_Dataset(tokenized_dataset[split], mask_token_id=..., pad_token_id=...)
PYTORCH_Dataset(split, tok) ==
    [split |-> split, mask_token_id |-> tok.mask_token_id,
     pad_token_id |-> tok.pad_token_id]

\* the validation wrapper built whenever there is a train split
HasValidation_train(td) == InSeq(td.splits, "train")

\* line 123
HasValidation(td) == InSeq(td.splits, "validation")

\* line 130
Returned(train, val, tok) ==
    [kind |-> "ok", msg |-> <<>>, train |-> train, val |-> val,
     tokenizer |-> tok]

\* line 134: the caller gets the exception and no value
Thrown(e) ==
    [kind |-> e.kind, msg |-> e.msg, train |-> NoWrapper, val |-> NoWrapper,
     tokenizer |-> NoTokenizer]

---------------------------------------------------------------------------
(* The call *)

Init ==
    /\ dataset_name \in DatasetNames
    /\ arg_text_column \in {None} \cup ExplicitColumns
    /\ text_column = arg_text_column
    /\ pc = "load_tokenizer"
    /\ tokenizer = NoTokenizer
    /\ loaded_tokenizer = NoTokenizer
    /\ dataset = NoDataset
    /\ remove_columns = <<>>
    /\ mapped = 0
    /\ tokenized_dataset = NoTokenized
    /\ train_dataset = NoWrapper
    /\ val_dataset = NoWrapper
    /\ trace = <<>>
    /\ cause = NoExc
    /\ raised = NoExc
    /\ outcome = NoOutcome

\* an exception leaves the statement at `step` for the outer handler
Raise(e, step) ==
    /\ raised' = At(e, step)
    /\ pc' = "except"

\* the external call at `step` throws e, which nothing catches before the
\* outer handler
ExternalFails(e, step) ==
    /\ cause' = At(e, step)
    /\ Raise(e, step)

\* lines 45-46
LoadTokenizer ==
    /\ pc = "load_tokenizer"
    /\ trace' = Append(trace, "load_tokenizer")
    /\ \/ \E tok \in ProviderTokenizers :
             /\ tokenizer' = tok
             /\ loaded_tokenizer' = tok
             /\ pc' = "ensure_mask"
             /\ UNCHANGED <<cause, raised>>
       \/ \E e \in ExternalErrors :
             /\ ExternalFails(e, "load_tokenizer")
             /\ UNCHANGED <<tokenizer, loaded_tokenizer>>
    /\ UNCHANGED <<dataset_name, arg_text_column, text_column, dataset,
                   remove_columns, mapped, tokenized_dataset, train_dataset,
                   val_dataset, outcome>>

\* lines 49-51
EnsureMaskToken ==
    /\ pc = "ensure_mask"
    /\ trace' = Append(trace, "ensure_mask")
    /\ IF MaskMissing(tokenizer)
       THEN \/ /\ tokenizer' = AddMaskToken(tokenizer)
               /\ pc' = "ensure_pad"
               /\ UNCHANGED <<cause, raised>>
            \/ \E e \in ExternalErrors :
                  /\ ExternalFails(e, "ensure_mask")
                  /\ UNCHANGED tokenizer
       ELSE /\ pc' = "ensure_pad"
            /\ UNCHANGED <<tokenizer, cause, raised>>
    /\ UNCHANGED <<dataset_name, arg_text_column, text_column,
                   loaded_tokenizer, dataset, remove_columns, mapped,
                   tokenized_dataset, train_dataset, val_dataset, outcome>>

\* lines 53-55
EnsurePadToken ==
    /\ pc = "ensure_pad"
    /\ trace' = Append(trace, "ensure_pad")
    /\ IF PadMissing(tokenizer)
       THEN \/ /\ tokenizer' = AddPadToken(tokenizer)
               /\ pc' = "load_dataset"
               /\ UNCHANGED <<cause, raised>>
            \/ \E e \in ExternalErrors :
                  /\ ExternalFails(e, "ensure_pad")
                  /\ UNCHANGED tokenizer
       ELSE /\ pc' = "load_dataset"
            /\ UNCHANGED <<tokenizer, cause, raised>>
    /\ UNCHANGED <<dataset_name, arg_text_column, text_column,
                   loaded_tokenizer, dataset, remove_columns, mapped,
                   tokenized_dataset, train_dataset, val_dataset, outcome>>

\* lines 58-62
LoadDataset ==
    /\ pc = "load_dataset"
    /\ trace' = Append(trace, "load_dataset")
    /\ \/ \E d \in ProviderDatasets :
             /\ dataset' = d
             /\ pc' = "detect"
             /\ UNCHANGED <<cause, raised>>
       \/ \E e \in ExternalErrors :
             /\ cause' = At(e, "load_dataset")
             /\ Raise(LoadError(dataset_name, e), "load_dataset")
             /\ UNCHANGED dataset
    /\ UNCHANGED <<dataset_name, arg_text_column, text_column, tokenizer,
                   loaded_tokenizer, remove_columns, mapped,
                   tokenized_dataset, train_dataset, val_dataset, outcome>>

\* lines 65-88
DetectTextColumn ==
    /\ pc = "detect"
    /\ trace' = Append(trace, "detect")
    /\ IF text_column = None /\ ~HasTrain(dataset)
       THEN \* line 68: dataset['train'] of a DatasetDict without the split
            /\ Raise(KeyError("train"), "detect")
            /\ UNCHANGED text_column
       ELSE IF /\ text_column = None
               /\ CandidateMatch(dataset.column_names) = None
               /\ dataset.column_names # <<>>
               /\ dataset.num_batches = 0
       THEN \* line 79: dataset['train'][0] of a split without records
            /\ Raise(IndexError, "detect")
            /\ UNCHANGED text_column
       ELSE LET resolved == ResolveTextColumn(text_column,
                                dataset.column_names, dataset.first)
            IN  IF resolved = None
                THEN /\ Raise(DetectError(dataset.column_names), "detect")
                     /\ UNCHANGED text_column
                ELSE /\ text_column' = resolved
                     /\ pc' = "tokenize"
                     /\ UNCHANGED raised
    /\ UNCHANGED <<dataset_name, arg_text_column, tokenizer,
                   loaded_tokenizer, dataset, remove_columns, mapped,
                   tokenized_dataset, train_dataset, val_dataset, cause,
                   outcome>>

\* lines 103-105: remove_columns; dataset.map is entered next
StartMap ==
    /\ pc = "tokenize"
    /\ trace' = Append(trace, "tokenize")
    /\ IF ~HasTrain(dataset)
       THEN \* line 105: dataset['train']
            /\ Raise(KeyError("train"), "tokenize")
            /\ UNCHANGED remove_columns
       ELSE /\ remove_columns' = RemoveColumns(text_column, dataset)
            /\ pc' = "map"
            /\ UNCHANGED raised
    /\ UNCHANGED <<dataset_name, arg_text_column, text_column, tokenizer,
                   loaded_tokenizer, dataset, mapped, tokenized_dataset,
                   train_dataset, val_dataset, cause, outcome>>

\* tokenize_function returned for the batch: dataset.map goes on
BatchDone ==
    /\ mapped' = mapped + 1
    /\ pc' = "map"
    /\ UNCHANGED <<cause, raised>>

\* tokenize_function logging a failure instead of raising it
MapBatch_swallow ==
    /\ pc = "map"
    /\ mapped < TotalBatches(dataset)
    /\ trace' = Append(trace, "map")
    /\ \/ BatchDone
       \/ \E e \in ExternalErrors :
             /\ cause' = At(e, "map")
             /\ mapped' = mapped + 1
             /\ pc' = "map"
             /\ UNCHANGED raised
    /\ UNCHANGED <<dataset_name, arg_text_column, text_column, tokenizer,
                   loaded_tokenizer, dataset, remove_columns,
                   tokenized_dataset, train_dataset, val_dataset, outcome>>

\* lines 91-101: dataset.map passes one batch of one split to
\* tokenize_function
MapBatch ==
    /\ pc = "map"
    /\ mapped < TotalBatches(dataset)
    /\ trace' = Append(trace, "map")
    /\ IF ~InSeq(dataset.column_names, text_column)
       THEN \* line 94: examples[text_column] throws KeyError, caught at
            \* line 100
            /\ Raise(TokenizeError(KeyError(text_column)), "map")
            /\ UNCHANGED <<mapped, cause>>
       ELSE \/ BatchDone
            \/ \E e \in ExternalErrors :
                  \* the tokenizer call throws, caught at line 100
                  /\ cause' = At(e, "map")
                  /\ Raise(TokenizeError(e), "map")
                  /\ UNCHANGED mapped
    /\ UNCHANGED <<dataset_name, arg_text_column, text_column, tokenizer,
                   loaded_tokenizer, dataset, remove_columns,
                   tokenized_dataset, train_dataset, val_dataset, outcome>>

\* lines 107-112: dataset.map itself throws, outside tokenize_function,
\* whatever the columns are and however many batches it has passed on
MapFails ==
    /\ pc = "map"
    /\ trace' = Append(trace, "map")
    /\ \E e \in ExternalErrors : ExternalFails(e, "map")
    /\ UNCHANGED <<dataset_name, arg_text_column, text_column, tokenizer,
                   loaded_tokenizer, dataset, remove_columns, mapped,
                   tokenized_dataset, train_dataset, val_dataset, outcome>>

\* lines 107-112: every batch of every split is done and dataset.map
\* returns
MapReturns ==
    /\ pc = "map"
    /\ mapped = TotalBatches(dataset)
    /\ tokenized_dataset' = Tokenized(dataset, remove_columns)
    /\ pc' = "wrap_train"
    /\ UNCHANGED <<dataset_name, arg_text_column, text_column, tokenizer,
                   loaded_tokenizer, dataset, remove_columns, mapped,
                   train_dataset, val_dataset, trace, cause, raised,
                   outcome>>

\* lines 115-120
WrapTrain ==
    /\ pc = "wrap_train"
    /\ trace' = Append(trace, "wrap_train")
    /\ \/ /\ train_dataset' = PYTORCH_Dataset("train", tokenizer)
          /\ pc' = "wrap_val"
          /\ UNCHANGED <<cause, raised>>
       \/ \E e \in ExternalErrors :
             /\ ExternalFails(e, "wrap_train")
             /\ UNCHANGED train_dataset
    /\ UNCHANGED <<dataset_name, arg_text_column, text_column, tokenizer,
                   loaded_tokenizer, dataset, remove_columns, mapped,
                   tokenized_dataset, val_dataset, outcome>>

\* lines 122-130
WrapValidation ==
    /\ pc = "wrap_val"
    /\ trace' = Append(trace, "wrap_val")
    /\ IF HasValidation(tokenized_dataset)
       THEN \/ /\ val_dataset' = PYTORCH_Dataset("validation", tokenizer)
               /\ outcome' = Returned(train_dataset, val_dataset', tokenizer)
               /\ pc' = "done"
               /\ UNCHANGED <<cause, raised>>
            \/ \E e \in ExternalErrors :
                  /\ ExternalFails(e, "wrap_val")
                  /\ UNCHANGED <<val_dataset, outcome>>
       ELSE /\ val_dataset' = NoWrapper
            /\ outcome' = Returned(train_dataset, val_dataset', tokenizer)
            /\ pc' = "done"
            /\ UNCHANGED <<cause, raised>>
    /\ UNCHANGED <<dataset_name, arg_text_column, text_column, tokenizer,
                   loaded_tokenizer, dataset, remove_columns, mapped,
                   tokenized_dataset, train_dataset>>

\* lines 132-134
OuterExcept ==
    /\ pc = "except"
    /\ outcome' = Thrown(OuterBoundary(raised))
    /\ pc' = "done"
    /\ UNCHANGED <<dataset_name, arg_text_column, text_column, tokenizer,
                   loaded_tokenizer, dataset, remove_columns, mapped,
                   tokenized_dataset, train_dataset, val_dataset, trace,
                   cause, raised>>

Next ==
    \/ LoadTokenizer
    \/ EnsureMaskToken
    \/ EnsurePadToken
    \/ LoadDataset
    \/ DetectTextColumn
    \/ StartMap
    \/ MapBatch
    \/ MapFails
    \/ MapReturns
    \/ WrapTrain
    \/ WrapValidation
    \/ OuterExcept

Spec == Init /\ [][Next]_vars

---------------------------------------------------------------------------
(* Properties *)

Done == pc = "done"

\* the detection step has run
DetectionRan == InSeq(trace, "detect")

\* the call was made without an explicit text_column
AutoDetecting == arg_text_column = None

AnyCandidateAvailable ==
    \E i \in 1..Len(possible_columns) :
        InSeq(dataset.column_names, possible_columns[i])

AnyStringColumn ==
    \E i \in 1..Len(dataset.column_names) :
        dataset.first[dataset.column_names[i]] = "str"

\* the 'train' split has a first record
HasFirstRecord == dataset.num_batches > 0

\* C1: whatever step an external collaborator fails at with an ordinary
\* exception, the caller observes a DatasetPreparationError and no other
\* kind of exception.
OnlyDatasetPreparationErrorEscapes ==
    /\ Done => outcome.kind \in {"ok", DPE}
    /\ (Done /\ (cause.kind # "None" \/ raised.kind # "None"))
           => outcome.kind = DPE

\* dataset.map itself threw a ValueError and the caller saw a
\* DatasetPreparationError
C1_Witness ==
    /\ Done
    /\ cause.at = "map"
    /\ raised.kind = "ValueError"
    /\ outcome.kind = DPE

\* C2: the outer boundary leaves a DatasetPreparationError raised inside
\* the sequence unchanged (no "Dataset preparation failed: " prefix), and
\* gives any other exception that prefix followed by its text.
BoundaryWrapsOnlyForeign ==
    (Done /\ outcome.kind # "ok") =>
        /\ outcome.kind = DPE
        /\ IF raised.kind = DPE
           THEN outcome.msg = raised.msg
           ELSE outcome.msg = <<PreparationFailed>> \o raised.msg

\* C3: without an explicit text_column and with a candidate name among the
\* 'train' columns, detection resolves to the earliest such name in the
\* order of the candidate list, whatever the declared order of the columns.
CandidatePriority ==
    (DetectionRan /\ AutoDetecting /\ HasTrain(dataset)
        /\ AnyCandidateAvailable) =>
        /\ raised.at # "detect"
        /\ \E i \in 1..Len(possible_columns) :
              /\ text_column = possible_columns[i]
              /\ InSeq(dataset.column_names, text_column)
              /\ \A j \in 1..(i - 1) :
                    ~InSeq(dataset.column_names, possible_columns[j])

\* 'content' is declared before 'text' and 'text' is resolved
C3_Witness ==
    /\ DetectionRan
    /\ AutoDetecting
    /\ dataset.column_names = <<"content", "text">>
    /\ text_column = "text"

\* C4: without an explicit text_column and without a candidate name among
\* the 'train' columns, detection resolves to the first column in declared
\* order whose first-record value is a string, skipping the columns before
\* it that hold something else.
FirstStringColumn ==
    (DetectionRan /\ AutoDetecting /\ HasTrain(dataset)
        /\ ~AnyCandidateAvailable /\ HasFirstRecord /\ AnyStringColumn) =>
        /\ raised.at # "detect"
        /\ \E i \in 1..Len(dataset.column_names) :
              /\ text_column = dataset.column_names[i]
              /\ dataset.first[text_column] = "str"
              /\ \A j \in 1..(i - 1) :
                    dataset.first[dataset.column_names[j]] # "str"

\* bar:int is declared before foo:str and foo is resolved
C4_Witness ==
    /\ DetectionRan
    /\ AutoDetecting
    /\ dataset.column_names = <<"bar", "foo">>
    /\ dataset.first["bar"] = "int"
    /\ dataset.first["foo"] = "str"
    /\ text_column = "foo"

\* C5: without an explicit text_column, a 'train' split with no
\* string-valued column (whatever its column names) makes detection raise
\* a DatasetPreparationError whose message lists the available columns;
\* detection never resolves to a column that does not hold a string.
FailsClosedWithoutStringColumn ==
    (DetectionRan /\ AutoDetecting /\ HasTrain(dataset) /\ HasFirstRecord
        /\ ~AnyStringColumn) =>
        /\ raised.at = "detect"
        /\ raised.kind = DPE
        /\ Contains(raised.msg, DetectFailed)
        /\ Done =>
              /\ outcome.kind = DPE
              /\ \A i \in 1..Len(dataset.column_names) :
                    Contains(outcome.msg, dataset.column_names[i])

\* C6: an explicit text_column is the resolved column unconditionally:
\* detection never fails for it, and when it is not a column of the
\* dataset the call fails in tokenization ("Tokenization failed: ..."),
\* not in detection ("Could not detect text column").
ExplicitColumnSkipsDetection ==
    ~AutoDetecting =>
        /\ text_column = arg_text_column
        /\ raised.at # "detect"
        /\ ~Contains(outcome.msg, DetectFailed)
        /\ (Done /\ cause.kind = "None" /\ HasTrain(dataset)
                /\ HasFirstRecord
                /\ ~InSeq(dataset.column_names, arg_text_column)) =>
              /\ outcome.kind = DPE
              /\ raised.at = "map"
              /\ Contains(outcome.msg, TokenizationFailed)

\* the explicit column 'label' is in no dataset: the call got past
\* detection and failed in tokenize_function
C6_Witness ==
    /\ Done
    /\ arg_text_column = "label"
    /\ DetectionRan
    /\ raised.at = "map"
    /\ Contains(outcome.msg, TokenizationFailed)

MissingRoles(tok) ==
    (IF tok.mask_token_id = NoId THEN 1 ELSE 0)
        + (IF tok.pad_token_id = NoId THEN 1 ELSE 0)

\* both special-token checks have run without an exception
Provisioned ==
    /\ InSeq(trace, "ensure_pad")
    /\ raised.at \notin {"ensure_mask", "ensure_pad"}

\* C7: after provisioning the tokenizer has a mask token and a pad token;
\* a role that was defined keeps its id, and the vocabulary has grown by
\* the number of roles that were missing.
ProvisionedTokenizer ==
    Provisioned =>
        /\ tokenizer.mask_token_id # NoId
        /\ tokenizer.pad_token_id # NoId
        /\ loaded_tokenizer.mask_token_id # NoId =>
              tokenizer.mask_token_id = loaded_tokenizer.mask_token_id
        /\ loaded_tokenizer.pad_token_id # NoId =>
              tokenizer.pad_token_id = loaded_tokenizer.pad_token_id
        /\ tokenizer.vocab_size =
              loaded_tokenizer.vocab_size + MissingRoles(loaded_tokenizer)

\* the mask token was defined and the pad token was not: one registration
C7_Witness ==
    /\ Provisioned
    /\ loaded_tokenizer.mask_token_id # NoId
    /\ loaded_tokenizer.pad_token_id = NoId
    /\ tokenizer.vocab_size = loaded_tokenizer.vocab_size + 1

\* C8: when load_dataset throws, the message of the error the caller gets
\* contains the dataset identifier and the text of the original failure.
LoadFailureNamesDataset ==
    (Done /\ cause.at = "load_dataset") =>
        /\ outcome.kind = DPE
        /\ Contains(outcome.msg, dataset_name)
        /\ \A i \in 1..Len(cause.msg) : Contains(outcome.msg, cause.msg[i])

C8_Witness ==
    /\ Done
    /\ cause.at = "load_dataset"
    /\ cause.kind = "OSError"
    /\ dataset_name = "imdb"

\* C9: on success the second return value is a wrapper, with the train
\* wrapper's mask and pad ids, exactly when the tokenized dataset has a
\* 'validation' split, and None otherwise; the train wrapper is built from
\* the 'train' split.
ValidationIffSplit ==
    (Done /\ outcome.kind = "ok") =>
        /\ outcome.train.split = "train"
        /\ outcome.train.mask_token_id = outcome.tokenizer.mask_token_id
        /\ outcome.train.pad_token_id = outcome.tokenizer.pad_token_id
        /\ IF InSeq(tokenized_dataset.splits, "validation")
           THEN /\ outcome.val.split = "validation"
                /\ outcome.val.mask_token_id = outcome.train.mask_token_id
                /\ outcome.val.pad_token_id = outcome.train.pad_token_id
           ELSE outcome.val = NoWrapper

\* a success without a 'validation' split: None, next to a train wrapper
C9_Witness ==
    /\ Done
    /\ outcome.kind = "ok"
    /\ tokenized_dataset.splits = <<"train">>
    /\ outcome.val = NoWrapper
    /\ outcome.train.split = "train"

StepOrder ==
    <<"load_tokenizer", "ensure_mask", "ensure_pad", "load_dataset",
      "detect", "tokenize", "map", "wrap_train", "wrap_val">>

Rank(step) == CHOOSE i \in 1..Len(StepOrder) : StepOrder[i] = step

\* C10: the steps run in the fixed order; a failure at a step ends the run
\* in an error with no later step executed and nothing returned (a failed
\* batch leaves no train wrapper, whatever was tokenized before it); a run
\* without a failure returns the train wrapper, the validation result and
\* the tokenizer.
FixedOrderNoPartialSuccess ==
    /\ \A i \in 1..(Len(trace) - 1) :
          \/ Rank(trace[i]) < Rank(trace[i + 1])
          \/ trace[i] = "map" /\ trace[i + 1] = "map"
    /\ trace # <<>> => trace[1] = "load_tokenizer"
    /\ cause.kind # "None" => raised.at = cause.at
    /\ raised.kind # "None" =>
          /\ trace[Len(trace)] = raised.at
          /\ pc \in {"except", "done"}
          /\ train_dataset.split = "None" \/ raised.at = "wrap_val"
    /\ (Done /\ raised.kind # "None") =>
          /\ outcome.kind # "ok"
          /\ outcome.train = NoWrapper
          /\ outcome.val = NoWrapper
          /\ outcome.tokenizer = NoTokenizer
    /\ (Done /\ raised.kind = "None") =>
          /\ outcome.kind = "ok"
          /\ outcome.train = train_dataset
          /\ outcome.train.split = "train"
          /\ outcome.val = val_dataset
          /\ outcome.tokenizer = tokenizer
          /\ \A i \in 1..Len(StepOrder) :
                StepOrder[i] # "map" => InSeq(trace, StepOrder[i])
          /\ mapped = TotalBatches(dataset)

\* the 'train' split was tokenized, a batch of 'validation' failed, and the
\* call ended in an error
C10_Witness ==
    /\ Done
    /\ raised.at = "map"
    /\ dataset.splits = <<"train", "validation">>
    /\ raised.kind = DPE
    /\ mapped >= dataset.num_batches
    /\ mapped < TotalBatches(dataset)
    /\ CurrentSplit(dataset, mapped) = "validation"
    /\ outcome.kind = DPE
    /\ outcome.train = NoWrapper

====
